---------------------------- MODULE Spec2Model ----------------------------
(***************************************************************************)
(* A model of src/main.js: the Mandelbrot renderer (generateMandelbrot,    *)
(* hslToRgb) and the pointer handlers that pan and zoom its viewport.      *)
(*                                                                         *)
(* JavaScript numbers are IEEE-754 binary64 values.  The model computes    *)
(* with them bit for bit: a number is <<sign, hi, lo, exp>> and stands for *)
(*      (-1)^sign * (hi * 2^28 + lo) * 2^exp                               *)
(* with a 53-bit significand (2^24 <= hi < 2^25, 0 <= lo < 2^28), or is    *)
(* Zero, an infinity or NaN.  Every operation rounds to nearest, ties to   *)
(* even, as the machine does; a result too large is an infinity, a result  *)
(* below 2^-1022 is rounded to a multiple of 2^-1074 (its significand then *)
(* ends in zeros).  Not modelled: the sign of zero, which main.js cannot   *)
(* observe (it divides by no zero).                                        *)
(***************************************************************************)
EXTENDS Integers, Sequences, FiniteSets, TLC

---------------------------------------------------------------------------
(* binary64 arithmetic *)

\* JavaScript computes a value where the expression stands, an argument before
\* the call: Evaluated(v) holds once v is computed.
Evaluated(v) == v = v

P14 == 2^14
P25 == 2^25
P28 == 2^28

Zero == <<0, 0, 0, 0>>
NaN  == <<0, 0, 0, 2>>
Infinity(s) == <<s, 0, 0, 1>>

IsZero(a) == a = Zero
IsNaN(a) == a = NaN
IsInfinity(a) == a[2] = 0 /\ a[4] = 1

\* The exponents of the largest number, (2^53 - 1) * 2^971, and of the
\* smallest one, 2^-1074.
MaxExp == 971
MinExp == -1074

\* The number of bits of n, 0 <= n < 2^28.
BitLen(n) == CHOOSE k \in 0..28 : n < 2^k /\ (k = 0 \/ n >= 2^(k - 1))

\* (hi, lo) shifted right by k bits, 0 <= k <= 28 (the bits shifted out are dropped).
ShiftRight(hi, lo, k) ==
    <<hi \div 2^k, (lo \div 2^k) + (hi % 2^k) * 2^(28 - k)>>

\* (hi, lo) shifted left by k bits, 0 <= k <= 28 (the caller keeps hi in range).
ShiftLeft(hi, lo, k) ==
    <<hi * 2^k + lo \div 2^(28 - k), (lo % 2^(28 - k)) * 2^k>>

\* The number of bits of hi * 2^28 + lo.
SigLen(hi, lo) ==
    IF hi >= 2^28 THEN 57
    ELSE IF hi >= 2^27 THEN 56
    ELSE IF hi >= 2^26 THEN 55
    ELSE IF hi >= P25 THEN 54
    ELSE IF hi >= 2^24 THEN 53
    ELSE IF hi > 0 THEN 28 + BitLen(hi) ELSE BitLen(lo)

\* (-1)^s * (hi * 2^28 + lo) * 2^e, of at most 53 bits or 2^53, with a 53-bit
\* significand; an infinity when it is too large.
Normal(s, hi, lo, e) ==
    IF hi = 0 /\ lo = 0 THEN Zero
    ELSE
      LET Ranged(m, e1) == IF e1 > MaxExp THEN Infinity(s) ELSE <<s, m[1], m[2], e1>>
          Sized(len) ==
              IF len > 53 THEN Ranged(ShiftRight(hi, lo, 1), e + 1)
              ELSE IF 53 - len >= 28
              THEN Ranged(ShiftLeft(lo, 0, 53 - len - 28), e - (53 - len))
              ELSE Ranged(ShiftLeft(hi, lo, 53 - len), e - (53 - len))
      IN Sized(SigLen(hi, lo))

\* (hi, lo) shifted right by d >= 0 bits, with whether a one was shifted out.
RECURSIVE ShiftRightSticky(_, _, _, _)
ShiftRightSticky(hi, lo, d, sticky) ==
    IF d >= 28 THEN ShiftRightSticky(hi \div P28, hi % P28, d - 28, sticky \/ lo # 0)
    ELSE <<hi \div 2^d, (lo \div 2^d) + (hi % 2^d) * 2^(28 - d), sticky \/ lo % 2^d # 0>>

\* The binary64 nearest to (-1)^s * (hi * 2^28 + lo + f) * 2^e, where 0 <= f < 1
\* and f > 0 exactly when sticky (round to nearest, ties to even).  With sticky
\* the value has at least 55 bits.  The k lowest bits are dropped: those beyond
\* 53, and those below 2^MinExp.
RoundPack(s, hi, lo, e, sticky) ==
    IF hi = 0 /\ lo = 0 THEN Zero
    ELSE
      LET Rounded(q, up, e1) ==
              IF up THEN Normal(s, q[1] + (q[2] + 1) \div P28, (q[2] + 1) % P28, e1)
              ELSE Normal(s, q[1], q[2], e1)
          \* t: the value without its k - 1 lowest bits, and whether one of them was set
          Halved(t, k) ==
              Rounded(ShiftRight(t[1], t[2], 1),
                      t[2] % 2 = 1 /\ (t[3] \/ (t[2] \div 2) % 2 = 1), e + k)
          Dropped(k) ==
              IF k <= 0 THEN Normal(s, hi, lo, e)
              ELSE Halved(ShiftRightSticky(hi, lo, k - 1, sticky), k)
          Sized(len) == Dropped(IF len - 53 > MinExp - e THEN len - 53 ELSE MinExp - e)
      IN Sized(SigLen(hi, lo))

FromInt(n) == RoundPack(IF n < 0 THEN 1 ELSE 0, 0, IF n < 0 THEN -n ELSE n, 0, FALSE)

FNeg(a) == IF IsZero(a) \/ IsNaN(a) THEN a ELSE <<1 - a[1], a[2], a[3], a[4]>>

\* |a| < |b|, |a| = |b| for nonzero or zero a, b
MagLt(a, b) ==
    IF IsZero(b) \/ IsInfinity(a) THEN FALSE
    ELSE IF IsZero(a) \/ IsInfinity(b) THEN TRUE
    ELSE \/ a[4] < b[4]
         \/ a[4] = b[4] /\ (a[2] < b[2] \/ (a[2] = b[2] /\ a[3] < b[3]))

FLt(a, b) ==
    IF IsNaN(a) \/ IsNaN(b) \/ a = b THEN FALSE
    ELSE IF IsZero(a) THEN b[1] = 0
    ELSE IF IsZero(b) THEN a[1] = 1
    ELSE IF a[1] # b[1] THEN a[1] = 1
    ELSE IF a[1] = 0 THEN MagLt(a, b) ELSE MagLt(b, a)

FLe(a, b) == ~IsNaN(a) /\ (a = b \/ FLt(a, b))

\* The product, exactly: the 4 x 4 limbs (base 2^14) of the two significands.
FMul(a, b) ==
    IF IsNaN(a) \/ IsNaN(b) THEN NaN
    ELSE IF IsInfinity(a) \/ IsInfinity(b)
    THEN IF IsZero(a) \/ IsZero(b) THEN NaN ELSE Infinity((a[1] + b[1]) % 2)
    ELSE IF IsZero(a) \/ IsZero(b) THEN Zero
    ELSE
      LET a0 == a[3] % P14  a1 == a[3] \div P14  a2 == a[2] % P14  a3 == a[2] \div P14
          b0 == b[3] % P14  b1 == b[3] \div P14  b2 == b[2] % P14  b3 == b[2] \div P14
          c0 == a0 * b0
          c1 == a0 * b1 + a1 * b0 + c0 \div P14
          c2 == a0 * b2 + a1 * b1 + a2 * b0 + c1 \div P14
          c3 == a0 * b3 + a1 * b2 + a2 * b1 + a3 * b0 + c2 \div P14
          c4 == a1 * b3 + a2 * b2 + a3 * b1 + c3 \div P14
          c5 == a2 * b3 + a3 * b2 + c4 \div P14
          c6 == a3 * b3 + c5 \div P14
          p0 == c0 % P14  p1 == c1 % P14  p2 == c2 % P14  p3 == c3 % P14
          p4 == c4 % P14  p5 == c5 % P14  p6 == c6 % P14  p7 == c6 \div P14
          \* the product shifted right by 50 bits, and whether bits were lost
          lo == (p3 \div 256) + p4 * 64 + (p5 % 256) * 2^20
          hi == (p5 \div 256) + p6 * 64 + p7 * 2^20
          sticky == p0 # 0 \/ p1 # 0 \/ p2 # 0 \/ p3 % 256 # 0
      IN RoundPack((a[1] + b[1]) % 2, hi, lo, a[4] + b[4] + 50, sticky)

\* Long division in base 2^14.  While t >= d: one more in the digit.
RECURSIVE DivCorrect(_, _, _, _, _)
DivCorrect(q, thi, tlo, dhi, dlo) ==
    IF thi > dhi \/ (thi = dhi /\ tlo >= dlo)
    THEN LET lo == tlo - dlo
         IN DivCorrect(q + 1, thi - dhi - (IF lo < 0 THEN 1 ELSE 0),
                       IF lo < 0 THEN lo + P28 ELSE lo, dhi, dlo)
    ELSE <<q, thi, tlo>>

\* One digit: <<floor(r * 2^14 / d), the rest>> for r < d, d of 56 bits.  The
\* digit is first estimated from below by the leading limbs, then corrected.
DivDigit(rhi, rlo, dhi, dlo) ==
    LET Rest(est, x0, x1, x2, x3) ==
            DivCorrect(est, ((rhi \div P14 + x3 \div P14) * P14 + (x3 % P14)) * P14 + (x2 % P14),
                       (x1 % P14) * P14 + (x0 % P14), dhi, dlo)
        Limb3(est, x0, x1, x2) ==
            Rest(est, x0, x1, x2, (rhi % P14) - est * (dhi \div P14) + (x2 \div P14))
        Limb2(est, x0, x1) ==
            Limb3(est, x0, x1, (rlo \div P14) - est * (dhi % P14) + (x1 \div P14))
        Limb1(est, x0) ==
            Limb2(est, x0, (rlo % P14) - est * (dlo \div P14) + (x0 \div P14))
        Limb0(est) == Limb1(est, -(est * (dlo % P14)))
    IN Limb0(rhi \div (dhi \div P14 + 1))

\* k more digits after the quotient (hi, lo) and the step r = <<digit, rest>>:
\* <<hi, lo, whether a rest is left>>.
RECURSIVE DivDigits(_, _, _, _, _)
DivDigits(k, hi, lo, r, d) ==
    IF k = 0 \/ ~Evaluated(<<hi, lo, r>>)
    THEN <<hi * P14 + lo \div P14, (lo % P14) * P14 + r[1], r[2] # 0 \/ r[3] # 0>>
    ELSE DivDigits(k - 1, hi * P14 + lo \div P14, (lo % P14) * P14 + r[1],
                   DivDigit(r[2], r[3], d[1], d[2]), d)

\* a / b for b # 0: floor(ma * 2^56 / mb) by four digits after the unit bit,
\* and whether a rest is left.
FDiv(a, b) ==
    IF IsNaN(a) \/ IsNaN(b) THEN NaN
    ELSE IF IsInfinity(a)
    THEN IF IsInfinity(b) THEN NaN ELSE Infinity((a[1] + b[1]) % 2)
    ELSE IF IsInfinity(b) THEN Zero
    ELSE IF IsZero(b) THEN IF IsZero(a) THEN NaN ELSE Infinity(a[1])
    ELSE IF IsZero(a) THEN Zero
    ELSE
      LET Quotient(n, d) == DivDigits(4, 0, 0, DivCorrect(0, n[1], n[2], d[1], d[2]), d)
          Pack(q) == RoundPack((a[1] + b[1]) % 2, q[1], q[2], a[4] - b[4] - 56, q[3])
      IN Pack(Quotient(ShiftLeft(a[2], a[3], 3), ShiftLeft(b[2], b[3], 3)))

\* a + b with |a| >= |b|, neither zero: both significands with three guard bits,
\* b aligned to a's exponent.
AddOrdered(a, b) ==
    LET Packed(m) == RoundPack(a[1], m[1], m[2], a[4] - 3, m[3])
        Borrowed(hi, lo, sticky) ==
            IF lo < 0 THEN <<hi - 1, lo + P28, sticky>> ELSE <<hi, lo, sticky>>
        Sum(A, B) ==
            IF a[1] = b[1]
            THEN <<A[1] + B[1] + (A[2] + B[2]) \div P28, (A[2] + B[2]) % P28, B[3]>>
            ELSE Borrowed(A[1] - B[1], A[2] - B[2] - (IF B[3] THEN 1 ELSE 0), B[3])
        Aligned(B0) ==
            IF a[4] - b[4] > 60 THEN <<0, 0, TRUE>>
            ELSE ShiftRightSticky(B0[1], B0[2], a[4] - b[4], FALSE)
    IN Packed(Sum(ShiftLeft(a[2], a[3], 3), Aligned(ShiftLeft(b[2], b[3], 3))))

FAdd(a, b) ==
    IF IsNaN(a) \/ IsNaN(b) THEN NaN
    ELSE IF IsInfinity(a) THEN IF IsInfinity(b) /\ a # b THEN NaN ELSE a
    ELSE IF IsInfinity(b) THEN b
    ELSE IF IsZero(a) THEN b
    ELSE IF IsZero(b) THEN a
    ELSE IF MagLt(a, b) THEN AddOrdered(b, a) ELSE AddOrdered(a, b)

FSub(a, b) == FAdd(a, FNeg(b))

\* Math.round of a number of small magnitude: the nearest integer, a tie upwards.
MathRound(a) ==
    IF IsZero(a) THEN 0
    ELSE
      LET Nearest(twice, inexact) ==
              IF a[1] = 0 THEN (twice + 1) \div 2
              ELSE IF twice % 2 = 1 /\ inexact THEN -((twice \div 2) + 1)
              ELSE -(twice \div 2)
          \* r = floor(|a| * 2), and whether |a| * 2 is no integer
          Doubled(r) == Nearest(r[1] * P28 + r[2], r[3])
      IN Doubled(ShiftRightSticky(a[2], a[3], -a[4] - 1, FALSE))

\* The operators +, -, * and / of main.js.  They and the functions of main.js
\* are applied through Call, one recursive operator, so that TLC keeps a single
\* copy of the arithmetic however many expressions use it.
RECURSIVE Call(_, _)
Add(a, b) == Call("+", <<a, b>>)
Sub(a, b) == Call("-", <<a, b>>)
Mul(a, b) == Call("*", <<a, b>>)
Div(a, b) == Call("/", <<a, b>>)
\* An integer of main.js (a literal, a loop counter, a pointer position) as a number.
Num(n)    == Call("Number", <<n>>)

---------------------------------------------------------------------------
(* the numbers main.js writes *)

One   == Num(1)
Two   == Num(2)
Four  == Num(4)
Six   == Num(6)
Half  == Div(One, Two)
Third == Div(One, Num(3))
Sixth == Div(One, Six)
TwoThirds == Div(Two, Num(3))
\* zoom *= 1.1, zoom /= 1.1 (lines 103, 105): the double nearest to 11/10
ZoomStep == Div(Num(11), Num(10))

---------------------------------------------------------------------------
(* generateMandelbrot and hslToRgb *)

\* (p - size / 2) * (4 / size) / z: a pixel's distance from the canvas centre
\* in plane units (lines 27, 28, 98, 99, 109, 110).
PlaneOffset(p, size, z) ==
    Div(Mul(Sub(Num(p), Div(Num(size), Two)), Div(Four, Num(size))), z)

\* (p - size / 2) * (4 / size) / z + off: the pixel-to-plane mapping.
PlaneCoord(p, size, z, off) == Add(PlaneOffset(p, size, z), off)

\* One pass of the while loop of lines 34-39 from s = <<iteration, x, y>>; s
\* itself when the condition of line 34 fails.
LoopPass(s, x0, y0, maxIter) ==
    LET Step(xx, yy) ==
            IF FLe(Add(xx, yy), Four) /\ s[1] < maxIter
            THEN <<s[1] + 1, Add(Sub(xx, yy), x0), Add(Mul(Mul(Two, s[2]), s[3]), y0)>>
            ELSE s
    IN Step(Mul(s[2], s[2]), Mul(s[3], s[3]))

\* The loop from s for at most n passes: the first half of them, then, unless
\* the loop has ended among these, the others.
RECURSIVE LoopPasses(_, _, _, _, _)
LoopPasses(n, s, x0, y0, maxIter) ==
    LET Others(half) ==
            IF half[1] < s[1] + n \div 2 THEN half
            ELSE LoopPasses(n - n \div 2, half, x0, y0, maxIter)
    IN IF n <= 0 \/ ~Evaluated(s) THEN s
       ELSE IF n = 1 THEN LoopPass(s, x0, y0, maxIter)
       ELSE Others(LoopPasses(n \div 2, s, x0, y0, maxIter))

\* The escape-time loop (lines 30-39): <<iteration, x, y>> as the loop leaves
\* them.  The loop makes at most maxIter - iteration passes.
EscapeLoop(x, y, iteration, x0, y0, maxIter) ==
    LoopPasses(maxIter - iteration, <<iteration, x, y>>, x0, y0, maxIter)

\* Lines 64-71.
hue2rgb(p, q, t0) ==
    LET Branch(t) ==
            IF FLt(t, Sixth) THEN Add(p, Mul(Mul(Sub(q, p), Six), t))
            ELSE IF FLt(t, Half) THEN q
            ELSE IF FLt(t, TwoThirds)
                 THEN Add(p, Mul(Mul(Sub(q, p), Sub(TwoThirds, t)), Six))
            ELSE p
        Above(t1) == Branch(IF FLt(One, t1) THEN Sub(t1, One) ELSE t1)
    IN Above(IF FLt(t0, Zero) THEN Add(t0, One) ELSE t0)

\* Lines 58-82: <<r, g, b>>, each Math.round(channel * 255).
hslToRgb(h, s, l) ==
    IF Evaluated(<<h, s, l>>) /\ IsZero(s)
    THEN <<MathRound(Mul(l, Num(255))), MathRound(Mul(l, Num(255))),
           MathRound(Mul(l, Num(255)))>>
    ELSE
      LET Channels(p, q) ==
              CASE Evaluated(<<q, p>>) ->
              <<MathRound(Mul(hue2rgb(p, q, Add(h, Third)), Num(255))),
                MathRound(Mul(hue2rgb(p, q, h), Num(255))),
                MathRound(Mul(hue2rgb(p, q, Sub(h, Third)), Num(255)))>>
          Chroma(q) == Channels(Sub(Mul(Two, l), q), q)
      IN Chroma(IF FLt(l, Half) THEN Mul(l, Add(One, s))
                ELSE Sub(Add(l, s), Mul(l, s)))

\* Line 42: colorValue.
ColorValue(iteration, maxIter) ==
    IF iteration = maxIter THEN Zero
    ELSE Mul(Div(Num(iteration), Num(maxIter)), Num(360))

\* Not main.js: the hue is the quotient, without the detour through degrees.
PixelColorQuotientHue(iteration, maxIter) ==
    hslToRgb(IF iteration = maxIter THEN Zero ELSE Div(Num(iteration), Num(maxIter)),
             One, Half)

\* Lines 42-43: the colour of a pixel from its iteration count.
PixelColor(iteration, maxIter) ==
    hslToRgb(Div(ColorValue(iteration, maxIter), Num(360)), One, Half)

\* Not main.js: the index runs down the columns.
StorePixelColumnMajor(img, px, py, w, e, maxIter) ==
    LET Store(rgb, pixelIndex) ==
            [data    |-> [img.data EXCEPT ![pixelIndex + 1] = rgb[1],
                                          ![pixelIndex + 2] = rgb[2],
                                          ![pixelIndex + 3] = rgb[3],
                                          ![pixelIndex + 4] = 255],
             written |-> Append(img.written, pixelIndex),
             loops   |-> Append(img.loops, e)]
    IN Store(PixelColor(e[1], maxIter), (px * w + py) * 4)

\* Lines 42-49: the colour of one pixel from its loop's outcome e = <<iteration,
\* x, y>>, stored at pixelIndex (0-based in the code, 1-based here).  A store
\* outside the buffer does nothing, as in a typed array.
StorePixel(img, px, py, w, e, maxIter) ==
    LET Store(rgb, pixelIndex) ==
            [data    |-> [img.data EXCEPT ![pixelIndex + 1] = rgb[1],
                                          ![pixelIndex + 2] = rgb[2],
                                          ![pixelIndex + 3] = rgb[3],
                                          ![pixelIndex + 4] = 255],
             written |-> Append(img.written, pixelIndex),
             loops   |-> Append(img.loops, e)]
    IN Store(PixelColor(e[1], maxIter), (py * w + px) * 4)

\* Lines 26-49: one pixel of the image.
WritePixel(img, px, py, maxIter, w, h, z, ox, oy) ==
    LET Colour(e) == CASE Evaluated(e) -> StorePixel(img, px, py, w, e, maxIter)
        Loop(x0, y0) ==
            CASE Evaluated(<<x0, y0>>) ->
                     Colour(EscapeLoop(Zero, Zero, 0, x0, y0, maxIter))
    IN Loop(PlaneCoord(px, w, z, ox), PlaneCoord(py, h, z, oy))

\* Lines 25-50: the loop over the pixels of row py, from px on; a pixel is
\* stored before the loop goes on to the next one.
RECURSIVE ColumnLoop(_, _, _, _, _, _, _, _, _)
ColumnLoop(px, py, img, maxIter, w, h, z, ox, oy) ==
    IF px >= w \/ ~Evaluated(img) THEN img
    ELSE ColumnLoop(px + 1, py, WritePixel(img, px, py, maxIter, w, h, z, ox, oy),
                    maxIter, w, h, z, ox, oy)

\* Lines 24-51: the loop over the rows, from py on.
RECURSIVE RowLoop(_, _, _, _, _, _, _, _)
RowLoop(py, img, maxIter, w, h, z, ox, oy) ==
    IF py >= h \/ ~Evaluated(img) THEN img
    ELSE RowLoop(py + 1, ColumnLoop(0, py, img, maxIter, w, h, z, ox, oy),
                 maxIter, w, h, z, ox, oy)

\* ctx.createImageData(width, height), line 20: transparent black, and an
\* IndexSizeError when a dimension is zero (canvas.width is never negative).
createImageData(w, h) ==
    IF w = 0 \/ h = 0 THEN [error |-> "IndexSizeError", data |-> <<>>]
    ELSE [error |-> "none", data |-> [i \in 1..(w * h * 4) |-> 0]]

\* ctx.putImageData(imageData, 0, 0), line 54: the image replaces the pixels of
\* the canvas it covers.
putImageData(shown, data) ==
    IF Len(data) >= Len(shown) THEN SubSeq(data, 1, Len(shown))
    ELSE data \o SubSeq(shown, Len(data) + 1, Len(shown))

\* Lines 20-51: the image generateMandelbrot computes, with the indexes it
\* stored at and each pixel's loop outcome, in the order of the loops.
RenderedImage(maxIter, w, h, z, ox, oy) ==
    RowLoop(0, [data |-> createImageData(w, h).data, written |-> <<>>, loops |-> <<>>],
            maxIter, w, h, z, ox, oy)

\* Not main.js: the image is added to what the canvas shows.
generateMandelbrotAccumulating(shown, maxIter, w, h, z, ox, oy) ==
    IF createImageData(w, h).error # "none"
    THEN [error |-> "IndexSizeError", canvas |-> shown, written |-> <<>>, loops |-> <<>>]
    ELSE LET Put(img) ==
                 [error |-> "none",
                  canvas |-> [i \in DOMAIN shown |-> (shown[i] + img.data[i]) % 256],
                  written |-> img.written, loops |-> img.loops]
         IN Put(RenderedImage(maxIter, w, h, z, ox, oy))

\* generateMandelbrot(), lines 18-55, on a canvas showing `shown`.
generateMandelbrot(shown, maxIter, w, h, z, ox, oy) ==
    IF createImageData(w, h).error # "none"
    THEN [error |-> "IndexSizeError", canvas |-> shown, written |-> <<>>, loops |-> <<>>]
    ELSE LET Put(img) == [error |-> "none", canvas |-> putImageData(shown, img.data),
                          written |-> img.written, loops |-> img.loops]
         IN Put(RenderedImage(maxIter, w, h, z, ox, oy))

---------------------------------------------------------------------------
(* the handlers' arithmetic *)

\* The wheel listener, lines 97-110.
WheelViewport(z, ox, oy, w, h, mouseX, mouseY, deltaY) ==
    LET Zoomed(x0, y0, z1) ==
            [zoom    |-> z1,
             offsetX |-> Sub(x0, PlaneOffset(mouseX, w, z1)),
             offsetY |-> Sub(y0, PlaneOffset(mouseY, h, z1))]
    IN Zoomed(PlaneCoord(mouseX, w, z, ox), PlaneCoord(mouseY, h, z, oy),
              IF deltaY < 0 THEN Mul(z, ZoomStep) ELSE Div(z, ZoomStep))

\* dx * (4 / width) / zoom, lines 129, 130.
PanDelta(d, size, z) == Div(Mul(Num(d), Div(Four, Num(size))), z)

\* The mousemove listener while dragging, lines 126-130.
PanViewport(z, ox, oy, w, h, dx, dy) ==
    [zoom    |-> z,
     offsetX |-> Sub(ox, PanDelta(dx, w, z)),
     offsetY |-> Sub(oy, PanDelta(dy, h, z))]

\* The wheel listener n times over from the viewport v, the pointer and deltaY
\* the same each time: the first half of the events, then the others.
RECURSIVE Scrolled(_, _, _, _, _, _, _)
Scrolled(n, v, w, h, mouseX, mouseY, deltaY) ==
    IF n <= 0 \/ ~Evaluated(v) THEN v
    ELSE IF n = 1
    THEN WheelViewport(v.zoom, v.offsetX, v.offsetY, w, h, mouseX, mouseY, deltaY)
    ELSE Scrolled(n - n \div 2, Scrolled(n \div 2, v, w, h, mouseX, mouseY, deltaY),
                  w, h, mouseX, mouseY, deltaY)

\* Lines 13-15.
InitialViewport == [zoom |-> One, offsetX |-> FNeg(Half), offsetY |-> Zero]

\* The largest maxIterations, the largest canvas side and the number of calls
\* of the render model.
MaxBudget == 2
MaxDim    == 2
MaxCalls  == 3

\* The largest maxIterations of the colour model, and the one of line 12.
MaxColorBudget == 68
ShippedBudget  == 100

\* Values of offsetX in units of 2^-17 for the colour model.  With zoom 1 and
\* offsetY 2 the pixel of a one-pixel canvas is the point (offsetX - 2, 0); the
\* loop leaves the n-th of these points on pass n (n = 1 .. 99) and never leaves
\* the last one, the origin.
ColorOffsets ==
    <<524289, 393217, 351579, 332294, 321612, 315019, 310640, 307573, 305335,
      303650, 302347, 301318, 300491, 299815, 299256, 298789, 298393, 298055,
      297765, 297513, 297293, 297100, 296930, 296778, 296644, 296523, 296415,
      296317, 296229, 296148, 296075, 296008, 295947, 295891, 295839, 295791,
      295747, 295706, 295668, 295633, 295600, 295569, 295540, 295514, 295488,
      295465, 295443, 295422, 295402, 295384, 295366, 295350, 295334, 295319,
      295305, 295292, 295279, 295267, 295256, 295245, 295234, 295224, 295215,
      295206, 295197, 295189, 295181, 295173, 295166, 295159, 295152, 295146,
      295140, 295134, 295128, 295123, 295118, 295113, 295108, 295103, 295098,
      295094, 295090, 295086, 295082, 295078, 295074, 295071, 295067, 295064,
      295061, 295058, 295055, 295052, 295049, 295046, 295043, 295041, 295038,
      262144>>

ColorViewports ==
    {[zoom |-> One, offsetX |-> Div(Num(ColorOffsets[n]), Num(2^17)), offsetY |-> Two] :
        n \in DOMAIN ColorOffsets}

\* Call(f, x): f applied to the arguments x.
Call(f, x) ==
    CASE ~Evaluated(x) -> x
      [] f = "+" -> FAdd(x[1], x[2])
      [] f = "-" -> FSub(x[1], x[2])
      [] f = "*" -> FMul(x[1], x[2])
      [] f = "/" -> FDiv(x[1], x[2])
      [] f = "Number" -> FromInt(x[1])
      [] f = "generateMandelbrot" ->
             generateMandelbrot(x[1], x[2], x[3], x[4], x[5], x[6], x[7])
      [] f = "wheel" -> WheelViewport(x[1], x[2], x[3], x[4], x[5], x[6], x[7], x[8])
      [] f = "mousemove" -> PanViewport(x[1], x[2], x[3], x[4], x[5], x[6], x[7])
      [] f = "Scrolled" -> Scrolled(x[1], x[2], x[3], x[4], x[5], x[6], x[7])
      [] f = "InitialViewport" -> InitialViewport
      [] f = "ColorViewports" -> ColorViewports

---------------------------------------------------------------------------
(* bounds *)

\* The canvas of the interactive model, width x height pixels.
CanvasWidth    == 2
CanvasHeight   == 3
\* maxIterations of the interactive model (100 in main.js, line 12).
Budget         == 3
\* Events per behaviour.
MaxEvents      == 3
\* Scrolls up per behaviour of the repeated zoom.
MaxZoomIns     == 7448
\* The long runs of scrolls after which the handlers are followed again: scrolls
\* up, scrolls down, and the events that follow a run.
DeepZoomIns    == 400
DeepZoomOuts   == 7439
MaxDeepEvents  == 2

\* Where the canvas lies in the page: getBoundingClientRect(), line 93.
Rect == [left |-> 1, top |-> 1]
\* Pointer positions <<clientX, clientY>>: the top left pixel of the canvas and
\* the bottom right one.
Pointers == {<<Rect.left, Rect.top>>,
             <<Rect.left + CanvasWidth - 1, Rect.top + CanvasHeight - 1>>}
\* event.deltaY: a scroll up and a scroll down.
DeltaYs  == {-1, 1}
\* The long runs: <<number of wheel events, their deltaY>>.
DeepScrolls == {<<DeepZoomIns, -1>>, <<DeepZoomOuts, 1>>}

VARIABLES
    maxIterations, width, height,   \* lines 8, 9, 12
    zoom, offsetX, offsetY,         \* lines 13-15
    isDragging, startX, startY,     \* lines 85, 86
    canvas,                         \* the pixels the canvas shows
    error,                          \* the exception the last call threw, or "none"
    written, loops,                 \* the last render's stores and loop outcomes
    frames,                         \* putImageData calls so far
    events,                         \* events handled so far
    event,                          \* the last event
    before,                         \* the state the last event found
    lastButton,                     \* the last of mousedown, mouseup, mouseleave
    seen                            \* the first image rendered for each viewport

vars == <<maxIterations, width, height, zoom, offsetX, offsetY, isDragging,
          startX, startY, canvas, error, written, loops, frames, events, event,
          before, lastButton, seen>>

Snapshot == [zoom |-> zoom, offsetX |-> offsetX, offsetY |-> offsetY,
             isDragging |-> isDragging, startX |-> startX, startY |-> startY,
             frames |-> frames]

NoEvent == [type |-> "load", clientX |-> 0, clientY |-> 0, deltaY |-> 0]

BlankCanvas(w, h) == [i \in 1..(w * h * 4) |-> 0]

\* The script has run: lines 4-15, 85, 86 and the first render, line 148.
Init ==
    /\ maxIterations = Budget
    /\ width = CanvasWidth
    /\ height = CanvasHeight
    /\ \E v \in {Call("InitialViewport", <<>>)} :
          zoom = v.zoom /\ offsetX = v.offsetX /\ offsetY = v.offsetY
    /\ isDragging = FALSE
    /\ startX = "undefined"
    /\ startY = "undefined"
    /\ \E r \in {Call("generateMandelbrot",
                      <<BlankCanvas(CanvasWidth, CanvasHeight), Budget, CanvasWidth,
                        CanvasHeight, zoom, offsetX, offsetY>>)} :
          /\ canvas = r.canvas
          /\ error = r.error
          /\ written = r.written
          /\ loops = r.loops
    /\ frames = 1
    /\ events = 0
    /\ event = NoEvent
    /\ before = [zoom |-> zoom, offsetX |-> offsetX, offsetY |-> offsetY,
                 isDragging |-> FALSE, startX |-> "undefined",
                 startY |-> "undefined", frames |-> 0]
    /\ lastButton = "none"
    /\ seen = <<>>

\* Another event may come: main.js handles any number of events; the model
\* follows MaxEvents events after the script has run, and MaxDeepEvents events
\* after each long run of scrolls.
Ready ==
    \/ events < MaxEvents
    \/ \E run \in DeepScrolls : events >= run[1] /\ events < run[1] + MaxDeepEvents

\* What every handler does to the bookkeeping.
Handled(type, clientX, clientY, deltaY) ==
    /\ events' = events + 1
    /\ event' = [type |-> type, clientX |-> clientX, clientY |-> clientY,
                 deltaY |-> deltaY]
    /\ before' = Snapshot
    /\ UNCHANGED <<maxIterations, width, height, seen>>

\* Not main.js: generateMandelbrot() runs, then the viewport becomes v.
RedrawBeforeUpdate(v) ==
    \E r \in {Call("generateMandelbrot", <<canvas, maxIterations, width, height,
                                           zoom, offsetX, offsetY>>)} :
       /\ zoom' = v.zoom
       /\ offsetX' = v.offsetX
       /\ offsetY' = v.offsetY
       /\ canvas' = r.canvas
       /\ error' = r.error
       /\ written' = r.written
       /\ loops' = r.loops
       /\ frames' = IF r.error = "none" THEN frames + 1 ELSE frames

\* The viewport becomes v and generateMandelbrot() runs, lines 113, 135.
Redraw(v) ==
    \E r \in {Call("generateMandelbrot", <<canvas, maxIterations, width, height,
                                           v.zoom, v.offsetX, v.offsetY>>)} :
       /\ zoom' = v.zoom
       /\ offsetX' = v.offsetX
       /\ offsetY' = v.offsetY
       /\ canvas' = r.canvas
       /\ error' = r.error
       /\ written' = r.written
       /\ loops' = r.loops
       /\ frames' = IF r.error = "none" THEN frames + 1 ELSE frames

\* Lines 89-114.
Wheel ==
    \E pointer \in Pointers, deltaY \in DeltaYs :
       /\ Ready
       /\ Redraw(Call("wheel", <<zoom, offsetX, offsetY, width, height,
                                 pointer[1] - Rect.left, pointer[2] - Rect.top, deltaY>>))
       /\ Handled("wheel", pointer[1], pointer[2], deltaY)
       /\ UNCHANGED <<isDragging, startX, startY, lastButton>>

\* Lines 117-121.
MouseDown ==
    \E pointer \in Pointers :
       /\ Ready
       /\ Handled("mousedown", pointer[1], pointer[2], 0)
       /\ isDragging' = TRUE
       /\ startX' = pointer[1]
       /\ startY' = pointer[2]
       /\ lastButton' = "mousedown"
       /\ UNCHANGED <<zoom, offsetX, offsetY, canvas, error, written, loops, frames>>

\* Lines 123-137.
MouseMove ==
    \E pointer \in Pointers :
       /\ Ready
       /\ IF isDragging
          THEN /\ Redraw(Call("mousemove", <<zoom, offsetX, offsetY, width, height,
                                             pointer[1] - startX, pointer[2] - startY>>))
               /\ startX' = pointer[1]
               /\ startY' = pointer[2]
          ELSE UNCHANGED <<zoom, offsetX, offsetY, canvas, error, written, loops,
                           frames, startX, startY>>
       /\ Handled("mousemove", pointer[1], pointer[2], 0)
       /\ UNCHANGED <<isDragging, lastButton>>

\* Lines 139-141.
MouseUp ==
    /\ Ready
    /\ Handled("mouseup", 0, 0, 0)
    /\ isDragging' = FALSE
    /\ lastButton' = "mouseup"
    /\ UNCHANGED <<zoom, offsetX, offsetY, canvas, error, written, loops, frames,
                   startX, startY>>

\* Not main.js: the drag goes on when the pointer leaves the canvas.
MouseLeaveStillDragging ==
    /\ Ready
    /\ Handled("mouseleave", 0, 0, 0)
    /\ lastButton' = "mouseleave"
    /\ UNCHANGED <<zoom, offsetX, offsetY, canvas, error, written, loops, frames,
                   startX, startY, isDragging>>

\* Lines 143-145.
MouseLeave ==
    /\ Ready
    /\ Handled("mouseleave", 0, 0, 0)
    /\ isDragging' = FALSE
    /\ lastButton' = "mouseleave"
    /\ UNCHANGED <<zoom, offsetX, offsetY, canvas, error, written, loops, frames,
                   startX, startY>>

Next == Wheel \/ MouseDown \/ MouseMove \/ MouseUp \/ MouseLeave

Spec == Init /\ [][Next]_vars

---------------------------------------------------------------------------
(* generateMandelbrot() as a function of the globals it reads *)

Viewport == [zoom |-> zoom, offsetX |-> offsetX, offsetY |-> offsetY]

\* The globals of lines 8-15 as the script sets them, before line 148 draws:
\* any budget (nothing in main.js checks it), any canvas size, the viewport of
\* lines 13-15.
InitRender ==
    /\ maxIterations \in -1..MaxBudget
    /\ width \in 0..MaxDim
    /\ height \in 0..MaxDim
    /\ \E v \in {Call("InitialViewport", <<>>)} :
          zoom = v.zoom /\ offsetX = v.offsetX /\ offsetY = v.offsetY
    /\ isDragging = FALSE
    /\ startX = "undefined"
    /\ startY = "undefined"
    /\ canvas = BlankCanvas(width, height)
    /\ error = "none"
    /\ written = <<>>
    /\ loops = <<>>
    /\ frames = 0
    /\ events = 0
    /\ event = NoEvent
    /\ before = [zoom |-> zoom, offsetX |-> offsetX, offsetY |-> offsetY,
                 isDragging |-> FALSE, startX |-> "undefined",
                 startY |-> "undefined", frames |-> 0]
    /\ lastButton = "none"
    /\ seen = <<>>

\* What `seen` becomes when the image `shown` is presented for the viewport v.
Seen(v, shown) ==
    IF v \in DOMAIN seen
    THEN [seen EXCEPT ![v].count = @ + 1]
    ELSE [u \in DOMAIN seen \cup {v} |->
             IF u = v THEN [image |-> shown, count |-> 1] ELSE seen[u]]

\* Pointer positions over a canvas of w x h pixels: its top left pixel and its
\* bottom right one; none when the canvas has no pixel.
PointersOn(w, h) ==
    IF w <= 0 \/ h <= 0 THEN {}
    ELSE {<<Rect.left, Rect.top>>, <<Rect.left + w - 1, Rect.top + h - 1>>}

\* Line 148: the script calls generateMandelbrot().
RenderCall ==
    /\ events = 0
    /\ Redraw(Viewport)
    /\ events' = 1
    /\ event' = [type |-> "render", clientX |-> 0, clientY |-> 0, deltaY |-> 0]
    /\ before' = Snapshot
    /\ seen' = IF error' = "none" THEN Seen(Viewport, canvas') ELSE seen
    /\ UNCHANGED <<maxIterations, width, height, isDragging, startX, startY, lastButton>>

\* The wheel listener, lines 89-114, once the script has run.
WheelCall ==
    \E pointer \in PointersOn(width, height), deltaY \in DeltaYs :
       /\ events > 0
       /\ events < MaxCalls
       /\ Redraw(Call("wheel", <<zoom, offsetX, offsetY, width, height,
                                 pointer[1] - Rect.left, pointer[2] - Rect.top, deltaY>>))
       /\ events' = events + 1
       /\ event' = [type |-> "wheel", clientX |-> pointer[1], clientY |-> pointer[2],
                    deltaY |-> deltaY]
       /\ before' = Snapshot
       /\ seen' = IF error' = "none"
                  THEN Seen([zoom |-> zoom', offsetX |-> offsetX', offsetY |-> offsetY'],
                            canvas')
                  ELSE seen
       /\ UNCHANGED <<maxIterations, width, height, isDragging, startX, startY,
                      lastButton>>

NextRender == RenderCall \/ WheelCall

SpecRender == InitRender /\ [][NextRender]_vars

---------------------------------------------------------------------------
(* the colour of the pixel of a one-pixel canvas *)

ColorBudgets == (1..MaxColorBudget) \cup {ShippedBudget}

\* The globals before line 148 draws on a one-pixel canvas: a budget, and a
\* viewport that puts the pixel on one of the points of ColorOffsets.
InitColor ==
    /\ maxIterations \in ColorBudgets
    /\ width = 1
    /\ height = 1
    /\ \E v \in Call("ColorViewports", <<>>) :
          zoom = v.zoom /\ offsetX = v.offsetX /\ offsetY = v.offsetY
    /\ isDragging = FALSE
    /\ startX = "undefined"
    /\ startY = "undefined"
    /\ canvas = BlankCanvas(1, 1)
    /\ error = "none"
    /\ written = <<>>
    /\ loops = <<>>
    /\ frames = 0
    /\ events = 0
    /\ event = NoEvent
    /\ before = [zoom |-> zoom, offsetX |-> offsetX, offsetY |-> offsetY,
                 isDragging |-> FALSE, startX |-> "undefined",
                 startY |-> "undefined", frames |-> 0]
    /\ lastButton = "none"
    /\ seen = <<>>

\* Line 148 draws the pixel.
NextColor == RenderCall

SpecColor == InitColor /\ [][NextColor]_vars

---------------------------------------------------------------------------
(* the handlers after a long run of scrolls *)

\* The page after a long run of wheel events, the pointer on the top left pixel
\* all along: prev is the viewport the last of them found, v the one it left
\* and drew (what a render shows does not depend on what the canvas showed).
InitDeep ==
    /\ maxIterations = Budget
    /\ width = CanvasWidth
    /\ height = CanvasHeight
    /\ \E run \in DeepScrolls :
          \E prev \in {Call("Scrolled", <<run[1] - 1, Call("InitialViewport", <<>>),
                                          CanvasWidth, CanvasHeight, 0, 0, run[2]>>)} :
             \E v \in {Call("wheel", <<prev.zoom, prev.offsetX, prev.offsetY,
                                       CanvasWidth, CanvasHeight, 0, 0, run[2]>>)} :
                \E r \in {Call("generateMandelbrot",
                                <<BlankCanvas(CanvasWidth, CanvasHeight), Budget,
                                  CanvasWidth, CanvasHeight, v.zoom, v.offsetX,
                                  v.offsetY>>)} :
                   /\ zoom = v.zoom
                   /\ offsetX = v.offsetX
                   /\ offsetY = v.offsetY
                   /\ canvas = r.canvas
                   /\ error = r.error
                   /\ written = r.written
                   /\ loops = r.loops
                   /\ frames = run[1] + 1
                   /\ events = run[1]
                   /\ event = [type |-> "wheel", clientX |-> Rect.left,
                               clientY |-> Rect.top, deltaY |-> run[2]]
                   /\ before = [zoom |-> prev.zoom, offsetX |-> prev.offsetX,
                                offsetY |-> prev.offsetY, isDragging |-> FALSE,
                                startX |-> "undefined", startY |-> "undefined",
                                frames |-> run[1]]
    /\ isDragging = FALSE
    /\ startX = "undefined"
    /\ startY = "undefined"
    /\ lastButton = "none"
    /\ seen = <<>>

SpecDeep == InitDeep /\ [][Next]_vars

---------------------------------------------------------------------------
(* the wheel scrolled up over and over, the pointer on the canvas's pixel *)

\* The script has run on a one-pixel canvas: lines 4-15, 85, 86 and 148.
InitZoom ==
    /\ maxIterations = Budget
    /\ width = 1
    /\ height = 1
    /\ \E v \in {Call("InitialViewport", <<>>)} :
          zoom = v.zoom /\ offsetX = v.offsetX /\ offsetY = v.offsetY
    /\ isDragging = FALSE
    /\ startX = "undefined"
    /\ startY = "undefined"
    /\ \E r \in {Call("generateMandelbrot",
                      <<BlankCanvas(1, 1), Budget, 1, 1, zoom, offsetX, offsetY>>)} :
          /\ canvas = r.canvas
          /\ error = r.error
          /\ written = r.written
          /\ loops = r.loops
    /\ frames = 1
    /\ events = 0
    /\ event = NoEvent
    /\ before = [zoom |-> zoom, offsetX |-> offsetX, offsetY |-> offsetY,
                 isDragging |-> FALSE, startX |-> "undefined",
                 startY |-> "undefined", frames |-> 0]
    /\ lastButton = "none"
    /\ seen = <<>>

\* Lines 89-114 for a scroll up (deltaY < 0) with the pointer at the canvas's
\* top left corner.
ZoomIn ==
    /\ events < MaxZoomIns
    /\ Redraw(Call("wheel", <<zoom, offsetX, offsetY, width, height, 0, 0, -1>>))
    /\ Handled("wheel", Rect.left, Rect.top, -1)
    /\ UNCHANGED <<isDragging, startX, startY, lastButton>>

NextZoom == ZoomIn

SpecZoom == InitZoom /\ [][NextZoom]_vars

---------------------------------------------------------------------------
(* the claims *)

\* The colour bytes of the pixel with index k (row-major, from 0) on the canvas.
Rgb(k) == <<canvas[4 * k + 1], canvas[4 * k + 2], canvas[4 * k + 3]>>

\* The pointer of the last event, relative to the canvas (lines 94, 95).
MouseX == event.clientX - Rect.left
MouseY == event.clientY - Rect.top

Called == event.type \in {"render", "wheel"}

Rendered == Called /\ error = "none"

\* C1: a render with maxIterations <= 0, width <= 0 or height <= 0 fails with
\* an error before any pixel is computed or written, and presents nothing.
C1_InvalidConfigurationFails ==
    (Called /\ (maxIterations <= 0 \/ width <= 0 \/ height <= 0))
        => (error # "none" /\ written = <<>> /\ frames = before.frames)

\* C2: with maxIterations >= 1 every pixel's loop ends with a count in
\* 0..maxIterations, and the count is maxIterations exactly when x*x + y*y <= 4
\* holds as the loop ends.
C2_CountIsBudgetIffBounded ==
    (Rendered /\ maxIterations >= 1) =>
        \A i \in 1..Len(loops) :
           /\ loops[i][1] \in 0..maxIterations
           /\ (loops[i][1] = maxIterations)
                 <=> FLe(Add(Mul(loops[i][2], loops[i][2]), Mul(loops[i][3], loops[i][3])),
                         Four)

\* |a|
FAbs(a) == IF IsZero(a) THEN a ELSE <<0, a[2], a[3], a[4]>>

\* 2^-50
Eps == <<0, 2^24, 0, -102>>

\* The zoom the wheel handler must leave.
WheelZoom ==
    IF event.deltaY < 0 THEN Mul(before.zoom, ZoomStep) ELSE Div(before.zoom, ZoomStep)

\* q is p up to the rounding of the two operations that lead from p to q through
\* the distance d: |q - p| <= 2^-50 * (|p| + |d|).
Near(p, q, d) == FLe(FAbs(Sub(q, p)), Mul(Eps, Add(FAbs(p), FAbs(d))))

\* C3: a wheel event multiplies zoom by 1.1 when deltaY < 0 and divides it by
\* 1.1 otherwise, and the plane point of the pointer's pixel is the same after
\* the handler as before it.  "The same" is read here up to rounding: in each
\* coordinate the two points differ by at most
\* 2^-50 * (|the point| + |the pointer's distance from the centre|).  A state
\* that fails this fails the claim read to the letter as well.
C3_PlanePointKept ==
    event.type = "wheel" =>
        /\ zoom = WheelZoom
        /\ Near(PlaneCoord(MouseX, width, before.zoom, before.offsetX),
                PlaneCoord(MouseX, width, zoom, offsetX), PlaneOffset(MouseX, width, zoom))
        /\ Near(PlaneCoord(MouseY, height, before.zoom, before.offsetY),
                PlaneCoord(MouseY, height, zoom, offsetY), PlaneOffset(MouseY, height, zoom))

\* C4: a mousemove during a drag subtracts dx * (4 / width) / zoom from offsetX
\* and dy * (4 / height) / zoom from offsetY, where (dx, dy) is the pointer's
\* move since the last mousedown or mousemove; a drag to the right or down
\* lowers the offset; zoom is unchanged and the pointer's position is the
\* reference of the next move.
C4_Pan ==
    (event.type = "mousemove" /\ before.isDragging) =>
        /\ offsetX = Sub(before.offsetX,
                         Div(Mul(Num(event.clientX - before.startX), Div(Four, Num(width))),
                             before.zoom))
        /\ offsetY = Sub(before.offsetY,
                         Div(Mul(Num(event.clientY - before.startY), Div(Four, Num(height))),
                             before.zoom))
        /\ (event.clientX > before.startX => FLt(offsetX, before.offsetX))
        /\ (event.clientX < before.startX => FLt(before.offsetX, offsetX))
        /\ (event.clientY > before.startY => FLt(offsetY, before.offsetY))
        /\ (event.clientY < before.startY => FLt(before.offsetY, offsetY))
        /\ zoom = before.zoom
        /\ startX = event.clientX
        /\ startY = event.clientY

\* C5: what a call of generateMandelbrot presents is the image the first call
\* with the same zoom, offsetX, offsetY, maxIterations, width and height
\* presented, whatever was rendered in between.
C5_Deterministic ==
    Rendered => (Viewport \in DOMAIN seen /\ canvas = seen[Viewport].image)

\* A viewport has been rendered again after another one gave another image.
C5_Witness ==
    /\ Rendered
    /\ Viewport \in DOMAIN seen
    /\ seen[Viewport].count > 1
    /\ \E v \in DOMAIN seen : seen[v].image # canvas

\* C6: a finished render has stored width * height times, once at each index
\* (py * width + px) * 4 and in the order of the loops, and the canvas holds,
\* for every pixel, the colour of that pixel under the current globals with
\* alpha 255: nothing is left of an earlier image.
C6_EveryPixelWrittenOnce ==
    Rendered =>
        /\ Len(canvas) = width * height * 4
        /\ Len(written) = width * height
        /\ \A py \in 0..(height - 1), px \in 0..(width - 1) :
              /\ written[py * width + px + 1] = (py * width + px) * 4
              /\ canvas[(py * width + px) * 4 + 4] = 255
              /\ Rgb(py * width + px)
                    = PixelColor(EscapeLoop(Zero, Zero, 0,
                                            PlaneCoord(px, width, zoom, offsetX),
                                            PlaneCoord(py, height, zoom, offsetY),
                                            maxIterations)[1],
                                 maxIterations)

\* A canvas of several rows and columns has been rendered over another image.
C6_Witness ==
    /\ Rendered
    /\ width > 1
    /\ height > 1
    /\ frames > 1
    /\ \E v \in DOMAIN seen : seen[v].image # canvas

\* The iteration count of the colour model's pixel.
Count == loops[1][1]

\* C7, as stated: the colour of a pixel is (255, 0, 0) when its count is
\* maxIterations and hslToRgb(count / maxIterations, 1, 0.5) otherwise, each
\* channel an integer in 0..255.
C7_HueIsTheQuotient ==
    frames = 1 =>
        /\ Count = maxIterations => Rgb(0) = <<255, 0, 0>>
        /\ Count # maxIterations
              => Rgb(0) = hslToRgb(Div(Num(Count), Num(maxIterations)), One, Half)
        /\ \A c \in 1..3 : Rgb(0)[c] \in 0..255

\* C7, amended: the colour of a pixel depends on its count and maxIterations
\* only.  It is hslToRgb(0, 1, 0.5) = (255, 0, 0) when the count is
\* maxIterations, and otherwise hslToRgb(h, 1, 0.5) for the hue the code
\* computes, h = ((count / maxIterations) * 360) / 360.  When maxIterations is
\* the 100 of main.js that colour is the colour hslToRgb(count / 100, 1, 0.5)
\* for every count.  Each channel is an integer in 0..255; the hue 1/3 gives
\* (0, 255, 0) and the hue 2/3 gives (0, 0, 255).
C7_Colour ==
    frames = 1 =>
        /\ Count = maxIterations
              => (Rgb(0) = <<255, 0, 0>> /\ Rgb(0) = hslToRgb(Zero, One, Half))
        /\ Count # maxIterations
              => Rgb(0) = hslToRgb(Div(Mul(Div(Num(Count), Num(maxIterations)), Num(360)),
                                       Num(360)),
                                   One, Half)
        /\ (Count # maxIterations /\ maxIterations = ShippedBudget)
              => Rgb(0) = hslToRgb(Div(Num(Count), Num(maxIterations)), One, Half)
        /\ \A c \in 1..3 : Rgb(0)[c] \in 0..255
        /\ hslToRgb(Third, One, Half) = <<0, 255, 0>>
        /\ hslToRgb(TwoThirds, One, Half) = <<0, 0, 255>>

\* A pixel has its colour whose hue is not the quotient count / maxIterations.
C7_Witness ==
    /\ frames = 1
    /\ Count # maxIterations
    /\ Div(Mul(Div(Num(Count), Num(maxIterations)), Num(360)), Num(360))
          # Div(Num(Count), Num(maxIterations))
    /\ Rgb(0) # <<255, 0, 0>>

\* C8: after any events zoom is above zero, and so is the scale
\* (4 / width) / zoom; an event that is no wheel event leaves zoom as it was.
C8_ZoomPositive ==
    /\ FLt(Zero, zoom)
    /\ FLt(Zero, Div(Div(Four, Num(width)), zoom))
    /\ event.type # "wheel" => zoom = before.zoom

\* C9: the handlers start idle; isDragging holds exactly when the last of the
\* mousedown, mouseup and mouseleave events was a mousedown; a mousemove while
\* idle leaves zoom, offsetX and offsetY unchanged and renders nothing.
C9_DragMachine ==
    /\ events = 0 => ~isDragging
    /\ isDragging <=> lastButton = "mousedown"
    /\ (event.type = "mousemove" /\ ~before.isDragging) =>
          /\ zoom = before.zoom
          /\ offsetX = before.offsetX
          /\ offsetY = before.offsetY
          /\ frames = before.frames

\* The pointer has moved over the canvas after it had left it and no button
\* was pressed since.
C9_Witness ==
    /\ event.type = "mousemove"
    /\ ~before.isDragging
    /\ lastButton = "mouseleave"
    /\ events > 2

\* C10: between two events the canvas shows the image of the current zoom,
\* offsetX and offsetY, and every event that changes them (a wheel event, a
\* mousemove during a drag) has presented exactly one frame, the other events
\* none: the frames come in the order of the events.
C10_FrameOfCurrentViewport ==
    /\ error = "none"
    /\ canvas = RenderedImage(maxIterations, width, height, zoom, offsetX, offsetY).data
    /\ frames = before.frames
                   + (IF \/ event.type \in {"load", "wheel"}
                         \/ (event.type = "mousemove" /\ before.isDragging)
                      THEN 1 ELSE 0)

\* A drag has presented a frame after a wheel event presented one.
C10_Witness ==
    /\ event.type = "mousemove"
    /\ before.isDragging
    /\ zoom # One
    /\ frames = events
    /\ offsetX # before.offsetX
=============================================================================
